---- MODULE Spec2Model ----
(***************************************************************************)
(* certman: configuration entries, credential resolution, secret           *)
(* validation and the check / new / renew commands of src/certman.         *)
(*                                                                         *)
(* Strings the code inspects character by character (credential values,    *)
(* environment variable names, account ids) are sequences of tokens: one   *)
(* token per character, except that the fixed pieces of the account        *)
(* convention ("CERTMAN_ALIYUN_", "_ACCESS_KEY_ID", ...) are one token      *)
(* each.  Python's None is the distinguished value None below.             *)
(***************************************************************************)
EXTENDS Integers, Sequences, FiniteSets, TLC

VARIABLES
    conf_dir,       \* the configuration directory: the global file, the item files
    entries,        \* runtime.config.entries: the merged entry list
    env,            \* the process environment (os.environ / runtime.env)
    certs,          \* <letsencrypt>/live/<primary_domain>/cert.pem, per domain
    cmd,            \* the command being run and its options
    pc,             \* position of the command handler
    results,        \* check: results
    worst_code,     \* check: worst_code
    fix_actions,    \* check: fix_actions
    executed,       \* check: how many planned actions have been started
    cred_files,     \* credentials/aliyun_<id>.ini files written so far
    certbot_calls,  \* run_certbot invocations so far, in order
    exported,       \* <entry name, primary domain> pairs exported to the output directory
    run_log,        \* the payloads written with _write_command_log / log_path.write_text
    validation,     \* config-validate: what validate_required_secrets did
    resolution,     \* what aliyun_credentials_for_entry did, per entry resolved
    outcome         \* how the process ended: exit code and the error raised

vars == <<conf_dir, entries, env, certs, cmd, pc, results, worst_code, fix_actions,
          executed, cred_files, certbot_calls, exported, run_log, validation,
          resolution, outcome>>

----------------------------------------------------------------------------
(* Python values *)

None == <<"<None>">>

Truthy(v) == v # None /\ v # <<>>

IsSpace(c) == c = " "

RECURSIVE LStrip(_)
LStrip(s) == IF s # <<>> /\ IsSpace(Head(s)) THEN LStrip(Tail(s)) ELSE s

RECURSIVE RStrip(_)
RStrip(s) ==
    IF s # <<>> /\ IsSpace(s[Len(s)]) THEN RStrip(SubSeq(s, 1, Len(s) - 1)) ELSE s

\* str.strip()
Strip(s) == RStrip(LStrip(s))

\* value.startswith("${")
StartsWithRef(s) == Len(s) >= 2 /\ s[1] = "$" /\ s[2] = "{"

\* value.endswith("}")
EndsWithBrace(s) == Len(s) >= 1 /\ s[Len(s)] = "}"

\* value[2:-1]
Inner(s) == SubSeq(s, 3, Len(s) - 1)

\* env.get(k) / os.getenv(k): None when the variable is not set
EnvGet(e, k) == IF k \in DOMAIN e THEN e[k] ELSE None

\* str.lower() on the provider names that occur
Lower(p) ==
    CASE p = "Aliyun" -> "aliyun"
      [] p = "ALIYUN" -> "aliyun"
      [] p = "CloudFlare" -> "cloudflare"
      [] OTHER -> p

RECURSIVE SelectSeqBy(_, _)
\* [e for e in seq if e.name == name]
SelectSeqBy(seq, name) ==
    IF seq = <<>> THEN <<>>
    ELSE IF Head(seq).name = name
         THEN <<Head(seq)>> \o SelectSeqBy(Tail(seq), name)
         ELSE SelectSeqBy(Tail(seq), name)

\* a bug: the last code instead of the worst one
MaxLast(a, b) == b

\* max(worst_code, code)
Max(a, b) == IF a >= b THEN a ELSE b

----------------------------------------------------------------------------
(* config.py: secret validation *)

\* _is_env_ref
IsEnvRef(value) == StartsWithRef(value) /\ EndsWithBrace(value) /\ Len(value) > 3

\* _env_ref_key
EnvRefKey(value) == Strip(Inner(value))

CredFields(entry) ==
    <<entry.access_key_id, entry.access_key_secret, entry.api_token>>

RECURSIVE MissingRefs(_, _)
\* the loop over [creds.access_key_id, creds.access_key_secret, creds.api_token]
MissingRefs(values, e) ==
    IF values = <<>> THEN <<>>
    ELSE LET value == Head(values)
             rest == MissingRefs(Tail(values), e)
         IN  IF ~Truthy(value) THEN rest
             ELSE IF IsEnvRef(value) /\ ~Truthy(EnvGet(e, EnvRefKey(value)))
                  THEN <<EnvRefKey(value)>> \o rest
                  ELSE rest

\* a bug: only the access-key id is looked at
HasPlainKeyIdOnly(entry) ==
    Truthy(entry.access_key_id) /\ ~IsEnvRef(entry.access_key_id)

HasAnyPlainCredential(entry) ==
    \/ Truthy(entry.access_key_id) /\ ~IsEnvRef(entry.access_key_id)
    \/ Truthy(entry.access_key_secret) /\ ~IsEnvRef(entry.access_key_secret)
    \/ Truthy(entry.api_token) /\ ~IsEnvRef(entry.api_token)

KnownProviders == {"cloudflare", "route53", "aliyun"}

\* the per-provider list `required`
RequiredKeys(provider, account) ==
    CASE provider = "cloudflare" ->
           << <<"CERTMAN_CLOUDFLARE_">> \o account \o <<"_API_TOKEN">> >>
      [] provider = "route53" ->
           << <<"CERTMAN_AWS_">> \o account \o <<"_ACCESS_KEY_ID">>,
              <<"CERTMAN_AWS_">> \o account \o <<"_SECRET_ACCESS_KEY">>,
              <<"CERTMAN_AWS_">> \o account \o <<"_REGION">> >>
      [] provider = "aliyun" ->
           << <<"CERTMAN_ALIYUN_">> \o account \o <<"_ACCESS_KEY_ID">>,
              <<"CERTMAN_ALIYUN_">> \o account \o <<"_ACCESS_KEY_SECRET">> >>
      [] OTHER -> <<>>

RECURSIVE UnsetOfAbsent(_, _)
\* a bug: `k not in env`, so a variable set to "" counts as present
UnsetOfAbsent(keys, e) ==
    IF keys = <<>> THEN <<>>
    ELSE IF Head(keys) \notin DOMAIN e
         THEN <<Head(keys)>> \o UnsetOfAbsent(Tail(keys), e)
         ELSE UnsetOfAbsent(Tail(keys), e)

RECURSIVE UnsetOf(_, _)
\* [k for k in required if not env.get(k)]
UnsetOf(keys, e) ==
    IF keys = <<>> THEN <<>>
    ELSE IF ~Truthy(EnvGet(e, Head(keys)))
         THEN <<Head(keys)>> \o UnsetOf(Tail(keys), e)
         ELSE UnsetOf(Tail(keys), e)

\* _required_env_keys: [ok |-> TRUE, keys |-> list] or the ValueError raised
RequiredEnvKeys(entry, e) ==
    LET provider == Lower(entry.dns_provider)
        missing  == MissingRefs(CredFields(entry), e)
    IN  IF missing # <<>> \/ HasAnyPlainCredential(entry)
        THEN [ok |-> TRUE, keys |-> missing]
        ELSE IF ~Truthy(entry.account_id)
        THEN [ok |-> TRUE, keys |-> <<>>]
        ELSE IF provider \notin KnownProviders
        THEN [ok |-> FALSE, keys |-> <<>>]
        ELSE [ok |-> TRUE, keys |-> UnsetOf(RequiredKeys(provider, entry.account_id), e)]

RECURSIVE ValidateLoop(_, _)
\* the loop of validate_required_secrets: the accumulated list `missing`,
\* or the error of the first entry whose _required_env_keys raises
ValidateLoop(es, e) ==
    IF es = <<>> THEN [ok |-> TRUE, keys |-> <<>>]
    ELSE LET r == RequiredEnvKeys(Head(es), e)
         IN  IF ~r.ok THEN r
             ELSE LET rest == ValidateLoop(Tail(es), e)
                  IN  IF ~rest.ok THEN rest
                      ELSE [ok |-> TRUE, keys |-> r.keys \o rest.keys]

SeqToSet(s) == {s[i] : i \in 1..Len(s)}

\* AppConfig.validate_required_secrets:
\*   "ok"          returns None (config-validate prints OK)
\*   "missing"     ValueError("Missing required env keys: ..."), with set(missing)
\*   "unsupported" ValueError("unsupported dns_provider: ...")
ValidateRequiredSecrets(es, e) ==
    LET r == ValidateLoop(es, e)
    IN  IF ~r.ok THEN [kind |-> "unsupported", keys |-> {}]
        ELSE IF r.keys # <<>> THEN [kind |-> "missing", keys |-> SeqToSet(r.keys)]
        ELSE [kind |-> "ok", keys |-> {}]

----------------------------------------------------------------------------
(* providers.py: credential resolution *)

\* _resolve_value: [ok |-> TRUE, value |-> ...] or the ValueError raised
ResolveValue(value0, e) ==
    LET value == Strip(value0)
    IN  IF StartsWithRef(value) /\ EndsWithBrace(value)
        THEN LET key == Strip(Inner(value))
                 resolved == EnvGet(e, key)
             IN  IF ~Truthy(resolved)
                 THEN [ok |-> FALSE, value |-> <<>>, error |-> "missing env var for reference"]
                 ELSE [ok |-> TRUE, value |-> resolved, error |-> "none"]
        ELSE [ok |-> TRUE, value |-> value, error |-> "none"]

AliyunAccountKeys(account) ==
    [id     |-> <<"CERTMAN_ALIYUN_">> \o account \o <<"_ACCESS_KEY_ID">>,
     secret |-> <<"CERTMAN_ALIYUN_">> \o account \o <<"_ACCESS_KEY_SECRET">>]

NoCreds == [access_key_id |-> <<>>, access_key_secret |-> <<>>]

\* a bug: the account convention is tried before the explicit credentials
AliyunCredentialsAccountFirst(entry, e) ==
    IF Truthy(entry.account_id)
    THEN LET ak == EnvGet(e, AliyunAccountKeys(entry.account_id).id)
             sk == EnvGet(e, AliyunAccountKeys(entry.account_id).secret)
         IN  IF ~Truthy(ak) \/ ~Truthy(sk)
             THEN [ok |-> FALSE, creds |-> NoCreds, error |-> "missing aliyun env keys"]
             ELSE [ok |-> TRUE, error |-> "none",
                   creds |-> [access_key_id |-> ak, access_key_secret |-> sk]]
    ELSE IF Truthy(entry.access_key_id) /\ Truthy(entry.access_key_secret)
    THEN LET a == ResolveValue(entry.access_key_id, e)
             s == ResolveValue(entry.access_key_secret, e)
         IN  IF ~a.ok THEN [ok |-> FALSE, creds |-> NoCreds, error |-> a.error]
             ELSE IF ~s.ok THEN [ok |-> FALSE, creds |-> NoCreds, error |-> s.error]
             ELSE [ok |-> TRUE, error |-> "none",
                   creds |-> [access_key_id |-> a.value, access_key_secret |-> s.value]]
    ELSE [ok |-> FALSE, creds |-> NoCreds,
          error |-> "aliyun entry missing account_id or credentials"]

\* aliyun_credentials_for_entry: the AliyunCredentials, or the ValueError raised
AliyunCredentialsForEntry(entry, e) ==
    IF Truthy(entry.access_key_id) /\ Truthy(entry.access_key_secret)
    THEN LET a == ResolveValue(entry.access_key_id, e)
             s == ResolveValue(entry.access_key_secret, e)
         IN  IF ~a.ok THEN [ok |-> FALSE, creds |-> NoCreds, error |-> a.error]
             ELSE IF ~s.ok THEN [ok |-> FALSE, creds |-> NoCreds, error |-> s.error]
             ELSE [ok |-> TRUE, error |-> "none",
                   creds |-> [access_key_id |-> a.value, access_key_secret |-> s.value]]
    ELSE IF ~Truthy(entry.account_id)
    THEN [ok |-> FALSE, creds |-> NoCreds,
          error |-> "aliyun entry missing account_id or credentials"]
    ELSE LET ak == EnvGet(e, AliyunAccountKeys(entry.account_id).id)
             sk == EnvGet(e, AliyunAccountKeys(entry.account_id).secret)
         IN  IF ~Truthy(ak) \/ ~Truthy(sk)
             THEN [ok |-> FALSE, creds |-> NoCreds, error |-> "missing aliyun env keys"]
             ELSE [ok |-> TRUE, error |-> "none",
                   creds |-> [access_key_id |-> ak, access_key_secret |-> sk]]

----------------------------------------------------------------------------
(* config_merge.py.  A file name is a sequence of tokens such as            *)
(* <<"item_", "a", ".toml">>.  No token is a prefix of another one, so the  *)
(* lexicographic order of token sequences is the order of the strings they  *)
(* spell.  A parsed file is a record: whether it has the `global` and       *)
(* `entries` keys, its entries (raw mappings), and `entry`, the mapping of  *)
(* its other top-level keys.                                                *)

\* the tokens of file names, in the order of the strings they stand for
TokenOrder == <<".example", ".toml", "1", "2", "a", "b", "config", "item_">>

Rank(t) == CHOOSE i \in 1..Len(TokenOrder) : TokenOrder[i] = t

RECURSIVE PathLess(_, _)
\* p < q for two paths of one directory
PathLess(p, q) ==
    IF p = <<>> THEN q # <<>>
    ELSE IF q = <<>> THEN FALSE
    ELSE IF Head(p) = Head(q) THEN PathLess(Tail(p), Tail(q))
    ELSE Rank(Head(p)) < Rank(Head(q))

RECURSIVE DirectoryOrder(_)
\* a bug: the paths taken as the directory lists them, here last name first
DirectoryOrder(S) ==
    IF S = {} THEN <<>>
    ELSE LET m == CHOOSE p \in S : \A q \in S \ {p} : PathLess(q, p)
         IN  <<m>> \o DirectoryOrder(S \ {m})

RECURSIVE SortedPaths(_)
\* sorted(conf_dir.glob(scan_glob))
SortedPaths(S) ==
    IF S = {} THEN <<>>
    ELSE LET m == CHOOSE p \in S : \A q \in S \ {p} : PathLess(p, q)
         IN  <<m>> \o SortedPaths(S \ {m})

\* str.startswith, str.endswith
StartsWith(s, prefix) ==
    Len(s) >= Len(prefix) /\ SubSeq(s, 1, Len(prefix)) = prefix

EndsWith(s, suffix) ==
    Len(s) >= Len(suffix) /\ SubSeq(s, Len(s) - Len(suffix) + 1, Len(s)) = suffix

\* conf_dir.glob(scan_glob) for a pattern <prefix>*<suffix>
Glob(dir) ==
    {p \in DOMAIN dir.files :
        /\ Len(p) >= Len(dir.scan_glob.prefix) + Len(dir.scan_glob.suffix)
        /\ StartsWith(p, dir.scan_glob.prefix)
        /\ EndsWith(p, dir.scan_glob.suffix)}

RECURSIVE Join(_)
\* the string a token sequence spells
Join(tokens) == IF tokens = <<>> THEN "" ELSE Head(tokens) \o Join(Tail(tokens))

\* Path.stem: the name without its last suffix
Stem(p) ==
    IF Len(p) > 1 /\ p[Len(p)] \in {".toml", ".example"}
    THEN SubSeq(p, 1, Len(p) - 1)
    ELSE p

\* a bug: the stem is used as it is
DefaultNameIsStem(item_path) == Join(Stem(item_path))

\* _default_name_from_item
DefaultNameFromItem(item_path) ==
    LET stem == Stem(item_path)
    IN  IF StartsWith(stem, <<"item_">>)
        THEN Join(SubSeq(stem, 2, Len(stem)))
        ELSE Join(stem)

\* EntryConfig: the fields without a default
RequiredFields == {"name", "primary_domain", "dns_provider"}

\* EntryConfig: the defaults of account_id and of the credentials
EntryDefaults ==
    [account_id |-> None, access_key_id |-> None, access_key_secret |-> None,
     api_token |-> None]

\* EntryConfig.model_validate(m) succeeds
ValidEntry(m) == RequiredFields \subseteq DOMAIN m

\* EntryConfig.model_validate(m).model_dump()
EntryModel(m) ==
    [f \in RequiredFields \cup DOMAIN EntryDefaults |->
        IF f \in DOMAIN m THEN m[f] ELSE EntryDefaults[f]]

ValidationError == [ok |-> FALSE, entries |-> <<>>]

\* AppConfig.model_validate(doc): `global` is required, every entry is an
\* EntryConfig; the entries as model_dump gives them
AppConfigValidate(doc) ==
    IF ~doc.has_global \/ \E i \in 1..Len(doc.entries) : ~ValidEntry(doc.entries[i])
    THEN ValidationError
    ELSE [ok |-> TRUE,
          entries |-> [i \in 1..Len(doc.entries) |-> EntryModel(doc.entries[i])]]

\* dict.setdefault(k, v)
SetDefault(m, k, v) ==
    IF k \in DOMAIN m THEN m
    ELSE [f \in DOMAIN m \cup {k} |-> IF f = k THEN v ELSE m[f]]

\* lines 38-51: what one item file appends to merged_entries
ItemEntries(item_path, item_dict) ==
    IF item_dict.has_entries \/ item_dict.has_global
    THEN AppConfigValidate(item_dict)
    ELSE [ok |-> TRUE,
          entries |-> <<SetDefault(item_dict.entry, "name",
                                   DefaultNameFromItem(item_path))>>]

RECURSIVE MergeItems(_, _, _)
\* the loop of lines 32-51 over the paths left, from merged_entries = acc
MergeItems(paths, dir, acc) ==
    IF paths = <<>> THEN [ok |-> TRUE, entries |-> acc]
    ELSE LET item_path == Head(paths)
         IN  IF item_path = dir.global_name
                  \/ EndsWith(item_path, <<".example", ".toml">>)
             THEN MergeItems(Tail(paths), dir, acc)
             ELSE LET c == ItemEntries(item_path, dir.files[item_path])
                  IN  IF ~c.ok THEN ValidationError
                      ELSE MergeItems(Tail(paths), dir, acc \o c.entries)

\* load_merged_config(global_config_path): the merged entries, or the
\* validation error that ends the load
LoadMergedConfig(dir) ==
    LET base_cfg == AppConfigValidate(dir.files[dir.global_name])
    IN  IF ~base_cfg.ok THEN ValidationError
        ELSE LET merged == MergeItems(SortedPaths(Glob(dir)), dir, base_cfg.entries)
             IN  IF ~merged.ok THEN ValidationError
                 ELSE AppConfigValidate([has_global |-> TRUE, has_entries |-> TRUE,
                                         entries |-> merged.entries])

ConfigToml == <<"config", ".toml">>

\* GlobalOnlyConfig.scan_items_glob: "item_*.toml"
DefaultGlob == [prefix |-> <<"item_">>, suffix |-> <<".toml">>]

NoMapping == [f \in {} |-> ""]

\* a full document with these entries
Document(es) ==
    [has_global |-> TRUE, has_entries |-> TRUE, entries |-> es, entry |-> NoMapping]

\* a configuration directory that holds the global file alone
DirOf(es) ==
    [global_name |-> ConfigToml, scan_glob |-> DefaultGlob,
     files |-> [p \in {ConfigToml} |-> Document(es)]]

----------------------------------------------------------------------------
(* certs.py, certbot_runner.py: the collaborators of the commands *)

SecondsPerDay == 86400

\* CertStatus.days_left: int(delta.total_seconds() // 86400)
DaysLeft(cert) == cert.seconds_left \div SecondsPerDay

MissingCert == [exists |-> FALSE, seconds_left |-> 0]

\* a certificate as the ACME client leaves it after a successful issuance
FreshCert == [exists |-> TRUE, seconds_left |-> 90 * SecondsPerDay]

\* CertbotResult of run_certbot: with passthrough the output is not captured,
\* so stderr is "" and is_admin_required_error() is False
RunCertbot(args, passthrough, proc) ==
    [cmd |-> args,
     returncode |-> proc.returncode,
     ok |-> proc.returncode = 0,
     admin |-> ~passthrough /\ proc.stderr_admin]

\* what the subprocess can answer: exit status, and whether its stderr names
\* administrative rights
ProcOutcomes == [returncode : {0, 1}, stderr_admin : BOOLEAN]

----------------------------------------------------------------------------
(* cli.py: new and renew, as the functions check --fix calls *)

\* _prepare_aliyun_credentials_ini: the file written, or the error raised
PrepareAliyunCredentialsIni(entry, e) ==
    LET r == AliyunCredentialsForEntry(entry, e)
    IN  [ok |-> r.ok,
         error |-> r.error,
         file |-> [id |-> IF Truthy(entry.account_id) THEN entry.account_id
                          ELSE <<entry.name>>,
                   creds |-> r.creds]]

Continue == [exit_code |-> -1, error |-> "none", by |-> "none"]

RECURSIVE PrepareAllLenient(_, _, _)
\* a bug: an entry whose credentials do not resolve is skipped
PrepareAllLenient(es, e, files) ==
    IF es = <<>> THEN [ok |-> TRUE, files |-> files]
    ELSE LET prep == PrepareAliyunCredentialsIni(Head(es), e)
         IN  PrepareAllLenient(Tail(es), e,
                               IF prep.ok THEN files \cup {prep.file} ELSE files)

RECURSIVE PrepareAll(_, _, _)
\* renew, lines 262-264: the credentials file of every entry in turn; the
\* first error ends the loop, the files written before it stay
PrepareAll(es, e, files) ==
    IF es = <<>> THEN [ok |-> TRUE, files |-> files]
    ELSE LET prep == PrepareAliyunCredentialsIni(Head(es), e)
         IN  IF ~prep.ok THEN [ok |-> FALSE, files |-> files]
             ELSE PrepareAll(Tail(es), e, files \cup {prep.file})

\* export(ctx, all, name, overwrite=True) as new and renew call it: the
\* <entry name, primary domain> pairs export_entry is called for
ExportTargets(es, name) ==
    {<<t.name, t.primary_domain>> :
       t \in SeqToSet(IF name # "<None>" /\ name # "" THEN SelectSeqBy(es, name) ELSE es)}

NoTarget(files, exit_code, error, by) ==
    [one |-> FALSE, index |-> 0, files |-> files,
     end |-> [exit_code |-> exit_code, error |-> error, by |-> by]]

\* new, lines 127-146: the entry selected and its credentials file, or the
\* error raised before the subprocess is started
NewTarget(es, e, name) ==
    LET hits == {i \in 1..Len(es) : es[i].name = name}
    IN  IF hits = {} THEN NoTarget({}, 2, "BadParameter", "new")
        ELSE LET first == CHOOSE i \in hits : \A j \in hits : i <= j
                 prep == PrepareAliyunCredentialsIni(es[first], e)
             IN  IF Lower(es[first].dns_provider) # "aliyun"
                 THEN NoTarget({}, 2, "BadParameter", "new")
                 ELSE IF ~prep.ok THEN NoTarget({}, 1, "ValueError", "new")
                 ELSE [one |-> TRUE, index |-> first, files |-> {prep.file},
                       end |-> Continue]

\* new, lines 148-217, after the target was selected as lines 127-146 do
NewIssued(target, es, name, force, export_, verbose, proc) ==
        IF target.end # Continue
        THEN [files |-> target.files, calls |-> <<>>, issued |-> {}, logs |-> <<>>,
              exported |-> {}, end |-> target.end]
        ELSE
        LET entry == es[target.index]
            args == [sub |-> "certonly",
                     cred_file |-> (CHOOSE f \in target.files : TRUE).id,
                     cert_name |-> entry.primary_domain,
                     force |-> force, dry_run |-> FALSE]
            result == RunCertbot(args, verbose, proc)
            log == [command |-> "new", entry |-> entry.name,
                    returncode |-> result.returncode]
        IN  [files |-> target.files,
             calls |-> <<result.cmd>>,
             issued |-> IF result.ok THEN {entry.primary_domain} ELSE {},
             logs |-> <<log>>,
             exported |-> IF result.ok /\ export_ THEN ExportTargets(es, name) ELSE {},
             end |-> IF ~result.ok
                     THEN IF result.admin
                          THEN [exit_code |-> 2, error |-> "Exit", by |-> "new"]
                          ELSE [exit_code |-> 1, error |-> "Exit", by |-> "new"]
                     ELSE Continue]

\* new(ctx, name, force, export_, verbose): files written, subprocess calls,
\* the certificate issued, the log payload, and how the call ends.
\* `end` is Continue when the function returns normally.
NewCommand(es, e, name, force, export_, verbose, proc) ==
    NewIssued(NewTarget(es, e, name), es, name, force, export_, verbose, proc)

\* renew, lines 250-270: the credentials files written and the entry --name
\* selects, or the error raised before the subprocess is started; a name that
\* is None or "" is no name
RenewTarget(es, e, all, name) ==
    LET named == name # "<None>" /\ name # ""
        hits == {i \in 1..Len(es) : es[i].name = name}
        every == IF all THEN PrepareAll(es, e, {}) ELSE [ok |-> TRUE, files |-> {}]
    IN  IF ~all /\ ~named THEN NoTarget({}, 2, "BadParameter", "renew")
        ELSE IF ~every.ok THEN NoTarget(every.files, 1, "ValueError", "renew")
        ELSE IF ~(named /\ ~all)
        THEN [one |-> FALSE, index |-> 0, files |-> every.files, end |-> Continue]
        ELSE IF hits = {} THEN NoTarget({}, 2, "BadParameter", "renew")
        ELSE LET first == CHOOSE i \in hits : \A j \in hits : i <= j
                 prep == PrepareAliyunCredentialsIni(es[first], e)
             IN  IF ~prep.ok THEN NoTarget({}, 1, "ValueError", "renew")
                 ELSE [one |-> TRUE, index |-> first, files |-> {prep.file},
                       end |-> Continue]

\* renew, lines 272-318, after the targets were prepared as lines 250-270 do
RenewIssued(target, es, name, force, dry_run, export_, verbose, proc) ==
        IF target.end # Continue
        THEN [files |-> target.files, calls |-> <<>>, issued |-> {}, logs |-> <<>>,
              exported |-> {}, end |-> target.end]
        ELSE
        LET args == [sub |-> "renew",
                     cred_file |-> None,
                     cert_name |-> IF target.one THEN es[target.index].primary_domain
                                   ELSE "<None>",
                     force |-> force, dry_run |-> dry_run]
            result == RunCertbot(args, verbose, proc)
            log == [command |-> "renew",
                    entry |-> IF target.one THEN es[target.index].name ELSE "<None>",
                    returncode |-> result.returncode]
        IN  [files |-> target.files,
             calls |-> <<result.cmd>>,
             issued |-> IF result.ok /\ ~dry_run
                        THEN IF target.one THEN {es[target.index].primary_domain}
                             ELSE {es[i].primary_domain : i \in 1..Len(es)}
                        ELSE {},
             logs |-> <<log>>,
             exported |-> IF result.ok /\ export_ /\ ~dry_run
                          THEN ExportTargets(es, IF target.one THEN name ELSE "<None>")
                          ELSE {},
             end |-> IF ~result.ok
                     THEN IF result.admin
                          THEN [exit_code |-> 2, error |-> "Exit", by |-> "renew"]
                          ELSE [exit_code |-> 1, error |-> "Exit", by |-> "renew"]
                     ELSE Continue]

\* renew(ctx, all, name, force, dry_run, export_, verbose)
RenewCommand(es, e, all, name, force, dry_run, export_, verbose, proc) ==
    RenewIssued(RenewTarget(es, e, all, name), es, name, force, dry_run, export_,
                verbose, proc)

----------------------------------------------------------------------------
(* cli.py: check *)

NoName == "<None>"

NameGiven(name) == name # NoName /\ name # ""

\* a bug: strict comparisons, so that a boundary day falls one class lower
ClassifyStrict(days_left, warn_days, force_renew_days) ==
    IF days_left < force_renew_days THEN [state |-> "force-renew", code |-> 20]
    ELSE IF days_left < warn_days THEN [state |-> "warn", code |-> 10]
    ELSE [state |-> "ok", code |-> 0]

\* a bug: the two thresholds taken in the wrong order
ClassifySwapped(days_left, warn_days, force_renew_days) ==
    IF days_left <= warn_days THEN [state |-> "force-renew", code |-> 20]
    ELSE IF days_left <= force_renew_days THEN [state |-> "warn", code |-> 10]
    ELSE [state |-> "ok", code |-> 0]

\* the classification of lines 420-427
Classify(days_left, warn_days, force_renew_days) ==
    IF days_left <= force_renew_days THEN [state |-> "force-renew", code |-> 20]
    ELSE IF days_left <= warn_days THEN [state |-> "warn", code |-> 10]
    ELSE [state |-> "ok", code |-> 0]

\* one pass of the loop body of lines 403-439 for `entry`
EvaluateEntry(entry, cs, warn_days, force_renew_days) ==
    IF ~cs[entry.primary_domain].exists
    THEN [result |-> [entry |-> entry.name, primary_domain |-> entry.primary_domain,
                      status |-> "missing"],
          code |-> 30]
    ELSE LET days_left == DaysLeft(cs[entry.primary_domain])
             c == Classify(days_left, warn_days, force_renew_days)
         IN  [result |-> [entry |-> entry.name, primary_domain |-> entry.primary_domain,
                          status |-> c.state, days_left |-> days_left],
              code |-> c.code]

RECURSIVE EvaluateLoop(_, _, _, _, _)
\* the loop of lines 400-439, from the accumulated (results, worst_code)
EvaluateLoop(targets, cs, warn_days, force_renew_days, acc) ==
    IF targets = <<>> THEN acc
    ELSE LET r == EvaluateEntry(Head(targets), cs, warn_days, force_renew_days)
         IN  EvaluateLoop(Tail(targets), cs, warn_days, force_renew_days,
                          [results |-> Append(acc.results, r.result),
                           worst_code |-> Max(acc.worst_code, r.code)])

RECURSIVE PlanFixWarn(_)
\* a bug: a renew is planned for entries classified warn as well
PlanFixWarn(rs) ==
    IF rs = <<>> THEN <<>>
    ELSE LET r == Head(rs)
         IN  IF r.status = "missing"
             THEN <<[entry |-> r.entry, action |-> "new", force |-> TRUE,
                     reason |-> "missing"]>> \o PlanFixWarn(Tail(rs))
             ELSE IF r.status \in {"force-renew", "warn"}
             THEN <<[entry |-> r.entry, action |-> "renew", force |-> TRUE,
                     reason |-> "expires-soon"]>> \o PlanFixWarn(Tail(rs))
             ELSE PlanFixWarn(Tail(rs))

RECURSIVE PlanFix(_)
\* the loop of lines 445-463
PlanFix(rs) ==
    IF rs = <<>> THEN <<>>
    ELSE LET r == Head(rs)
         IN  IF r.status = "missing"
             THEN <<[entry |-> r.entry, action |-> "new", force |-> TRUE,
                     reason |-> "missing"]>> \o PlanFix(Tail(rs))
             ELSE IF r.status = "force-renew"
             THEN <<[entry |-> r.entry, action |-> "renew", force |-> TRUE,
                     reason |-> "expires-soon"]>> \o PlanFix(Tail(rs))
             ELSE PlanFix(Tail(rs))

\* lines 390-442: select the targets, evaluate every one of them
CheckEvaluate ==
    /\ pc = "start"
    /\ cmd.command = "check"
    /\ LET targets == IF NameGiven(cmd.name) THEN SelectSeqBy(entries, cmd.name)
                      ELSE entries
       IN  IF NameGiven(cmd.name) /\ targets = <<>>
           THEN /\ outcome' = [exit_code |-> 2, error |-> "BadParameter", by |-> "check"]
                /\ pc' = "done"
                /\ UNCHANGED <<results, worst_code>>
           ELSE LET r == EvaluateLoop(targets, certs, cmd.warn_days,
                                      cmd.force_renew_days,
                                      [results |-> <<>>, worst_code |-> 0])
                IN  /\ results' = r.results
                    /\ worst_code' = r.worst_code
                    /\ pc' = "plan"
                    /\ UNCHANGED outcome
    /\ UNCHANGED <<conf_dir, entries, env, certs, cmd, fix_actions, executed, cred_files,
                   certbot_calls, exported, run_log, validation, resolution>>

\* lines 444-463
CheckPlan ==
    /\ pc = "plan"
    /\ fix_actions' = IF cmd.fix THEN PlanFix(results) ELSE <<>>
    /\ pc' = "fix"
    /\ UNCHANGED <<conf_dir, entries, env, certs, cmd, results, worst_code, executed,
                   cred_files, certbot_calls, exported, run_log, validation,
                   resolution, outcome>>

\* what a call of new or renew does to the state; an error it raises ends check
ApplyCall(r) ==
    /\ cred_files' = cred_files \cup r.files
    /\ certbot_calls' = certbot_calls \o r.calls
    /\ certs' = [d \in DOMAIN certs |-> IF d \in r.issued THEN FreshCert ELSE certs[d]]
    /\ exported' = exported \cup r.exported
    /\ run_log' = run_log \o r.logs
    /\ executed' = executed + 1
    /\ IF r.end = Continue
       THEN UNCHANGED <<pc, outcome>>
       ELSE pc' = "done" /\ outcome' = r.end

\* lines 466-468: new(ctx, name=action["entry"], force=True, export_=True);
\* verbose is left at its default, the typer.Option object, which is truthy
CheckFixNew ==
    /\ pc = "fix"
    /\ executed < Len(fix_actions)
    /\ fix_actions[executed + 1].action = "new"
    /\ \E proc \in ProcOutcomes :
         ApplyCall(NewCommand(entries, env, fix_actions[executed + 1].entry,
                              TRUE, TRUE, TRUE, proc))
    /\ UNCHANGED <<conf_dir, entries, env, cmd, results, worst_code, fix_actions,
                   validation, resolution>>

\* lines 469-470: renew(ctx, all=False, name=action["entry"], force=True,
\* export_=True); dry_run and verbose are left at their defaults, the
\* typer.Option objects, which are truthy
CheckFixRenew ==
    /\ pc = "fix"
    /\ executed < Len(fix_actions)
    /\ fix_actions[executed + 1].action = "renew"
    /\ \E proc \in ProcOutcomes :
         ApplyCall(RenewCommand(entries, env, FALSE, fix_actions[executed + 1].entry,
                                TRUE, TRUE, TRUE, TRUE, proc))
    /\ UNCHANGED <<conf_dir, entries, env, cmd, results, worst_code, fix_actions,
                   validation, resolution>>

\* a bug: the targets are evaluated again after the fixes, and the report and
\* the exit code come from that evaluation
CheckReportReevaluated ==
    /\ pc = "fix"
    /\ executed = Len(fix_actions)
    /\ results' = EvaluateLoop(IF NameGiven(cmd.name)
                               THEN SelectSeqBy(entries, cmd.name) ELSE entries,
                               certs, cmd.warn_days, cmd.force_renew_days,
                               [results |-> <<>>, worst_code |-> 0]).results
    /\ worst_code' = EvaluateLoop(IF NameGiven(cmd.name)
                                  THEN SelectSeqBy(entries, cmd.name) ELSE entries,
                                  certs, cmd.warn_days, cmd.force_renew_days,
                                  [results |-> <<>>, worst_code |-> 0]).worst_code
    /\ run_log' = Append(run_log, [command |-> "check", results |-> results',
                                   fix |-> cmd.fix, fix_actions |-> fix_actions,
                                   exit_code |-> worst_code'])
    /\ outcome' = [exit_code |-> worst_code', error |-> "Exit", by |-> "check"]
    /\ pc' = "done"
    /\ UNCHANGED <<conf_dir, entries, env, certs, cmd, fix_actions, executed,
                   cred_files, certbot_calls, exported, validation, resolution>>

\* lines 472-504
CheckReport ==
    /\ pc = "fix"
    /\ executed = Len(fix_actions)
    /\ run_log' = Append(run_log, [command |-> "check", results |-> results,
                                   fix |-> cmd.fix, fix_actions |-> fix_actions,
                                   exit_code |-> worst_code])
    /\ outcome' = [exit_code |-> worst_code, error |-> "Exit", by |-> "check"]
    /\ pc' = "done"
    /\ UNCHANGED <<conf_dir, entries, env, certs, cmd, results, worst_code, fix_actions,
                   executed, cred_files, certbot_calls, exported, validation,
                   resolution>>

----------------------------------------------------------------------------
(* The configurations, environments and certificate states explored *)

MaxEntries == 2

Entry(name, domain, provider, account, id, secret, token) ==
    [name |-> name, primary_domain |-> domain, dns_provider |-> provider,
     account_id |-> account, access_key_id |-> id, access_key_secret |-> secret,
     api_token |-> token]

Lit == <<"s">>

AccountM == <<"m">>

\* the entries of the check runs: resolvable and unresolvable credentials, a
\* provider new refuses, and a second entry named "a"
CheckPool ==
    { Entry("a", "a.test", "aliyun", None, Lit, Lit, None),
      Entry("b", "b.test", "aliyun", None, Lit, Lit, None),
      Entry("b", "b.test", "aliyun", None, None, None, None),
      Entry("b", "b.test", "cloudflare", None, Lit, Lit, None),
      Entry("a", "b.test", "Aliyun", AccountM, None, None, None) }

SeqsUpTo(S, n) == UNION {[1..k -> S] : k \in 0..n}

Domains == {"a.test", "b.test"}

\* seconds to expiry: days_left -1, 5, 7, 10 and 45
SecondsChoices ==
    {-1, 5 * SecondsPerDay, 7 * SecondsPerDay + 86399, 10 * SecondsPerDay,
     45 * SecondsPerDay}

CertChoices == {MissingCert} \cup [exists : {TRUE}, seconds_left : SecondsChoices]

\* <<warn_days, force_renew_days>>
Thresholds == {<<30, 7>>, <<10, 5>>, <<7, 7>>, <<5, 7>>, <<0, -1>>}

EnvValue(k) == <<"value of">> \o k

AccountEnv ==
    [k \in {AliyunAccountKeys(AccountM).id, AliyunAccountKeys(AccountM).secret}
       |-> EnvValue(k)]

EmptyEnv == [k \in {} |-> None]

InitCommon ==
    /\ conf_dir = DirOf(entries)
    /\ pc = "start"
    /\ results = <<>>
    /\ worst_code = 0
    /\ fix_actions = <<>>
    /\ executed = 0
    /\ cred_files = {}
    /\ certbot_calls = <<>>
    /\ exported = {}
    /\ run_log = <<>>
    /\ validation = [kind |-> "none", keys |-> {}]
    /\ resolution = <<>>
    /\ outcome = [exit_code |-> -1, error |-> "running", by |-> "none"]

InitCheck ==
    /\ entries \in SeqsUpTo(CheckPool, MaxEntries)
    /\ env \in {EmptyEnv, AccountEnv}
    /\ certs \in [Domains -> CertChoices]
    /\ \E t \in Thresholds, n \in {NoName, "b", "zz"}, f \in BOOLEAN :
         cmd = [command |-> "check", name |-> n, warn_days |-> t[1],
                force_renew_days |-> t[2], fix |-> f]
    /\ InitCommon

NextCheck ==
    \/ CheckEvaluate
    \/ CheckPlan
    \/ CheckFixNew
    \/ CheckFixRenew
    \/ CheckReport

SpecCheck == InitCheck /\ [][NextCheck]_vars

----------------------------------------------------------------------------
(* cli.py: config-validate, and the credential step of new and renew *)

\* config_validate: runtime.config.validate_required_secrets(runtime.env)
ConfigValidate ==
    /\ validation.kind = "none"
    /\ validation' = ValidateRequiredSecrets(entries, env)
    /\ UNCHANGED <<conf_dir, entries, env, certs, cmd, pc, results, worst_code, fix_actions,
                   executed, cred_files, certbot_calls, exported, run_log,
                   resolution, outcome>>

\* _prepare_aliyun_credentials_ini(runtime=runtime, entry=entry) for the entry
\* a new or renew run targets
PrepareCredentials ==
    \E i \in 1..Len(entries) :
       LET prep == PrepareAliyunCredentialsIni(entries[i], env)
       IN  /\ resolution = <<>>
           /\ resolution' = <<[index |-> i, ok |-> prep.ok, error |-> prep.error,
                               creds |-> prep.file.creds]>>
           /\ cred_files' = IF prep.ok THEN cred_files \cup {prep.file} ELSE cred_files
           /\ UNCHANGED <<conf_dir, entries, env, certs, cmd, pc, results, worst_code,
                          fix_actions, executed, certbot_calls, exported, run_log,
                          validation, outcome>>

\* the names an entry can make the code look up
RefName(value) ==
    IF Truthy(value) /\ StartsWithRef(Strip(value)) /\ EndsWithBrace(Strip(value))
    THEN {Strip(Inner(Strip(value)))} \ {<<>>}
    ELSE {}

RelevantNames(entry) ==
    RefName(entry.access_key_id) \cup RefName(entry.access_key_secret)
      \cup RefName(entry.api_token)
      \cup (IF Truthy(entry.account_id)
            THEN SeqToSet(RequiredKeys(Lower(entry.dns_provider), entry.account_id))
                   \cup {AliyunAccountKeys(entry.account_id).id,
                         AliyunAccountKeys(entry.account_id).secret}
            ELSE {})

NamesOf(es) == UNION {RelevantNames(es[i]) : i \in 1..Len(es)}

\* the operator sets one more variable before the next run; what the earlier
\* runs printed no longer describes this environment
ExportEnv ==
    \E k \in NamesOf(entries) :
       /\ ~Truthy(EnvGet(env, k))
       /\ env' = [n \in DOMAIN env \cup {k} |-> IF n = k THEN EnvValue(k) ELSE env[n]]
       /\ validation' = [kind |-> "none", keys |-> {}]
       /\ resolution' = <<>>
       /\ UNCHANGED <<conf_dir, entries, certs, cmd, pc, results, worst_code, fix_actions,
                      executed, cred_files, certbot_calls, exported, run_log,
                      outcome>>

\* the environments over the names N: each name unset or set to a value, and
\* at most one of them set to ""
EnvsOver(N) ==
    UNION { { [k \in S |-> IF k \in E THEN <<>> ELSE EnvValue(k)] :
                E \in {{}} \cup {{x} : x \in S} }
            : S \in SUBSET N }

RefA == <<"$", "{", "A", "}">>

\* "${ B }"
RefB == <<"$", "{", " ", "B", " ", "}">>

\* " ${A} "
PaddedRefA == <<" ", "$", "{", "A", "}", " ">>

\* " s "
PaddedLit == <<" ", "s", " ">>

\* "${}"
EmptyRef == <<"$", "{", "}">>

\* "${CERTMAN_ALIYUN_m_ACCESS_KEY_SECRET}"
AccountRef == <<"$", "{">> \o AliyunAccountKeys(AccountM).secret \o <<"}">>

ValidatePool ==
    { Entry("e", "e.test", "cloudflare", AccountM, None, None, None),
      Entry("e", "e.test", "route53", AccountM, None, None, None),
      Entry("e", "e.test", "Aliyun", AccountM, None, None, None),
      Entry("e", "e.test", "gcp", AccountM, None, None, None),
      Entry("e", "e.test", "gcp", None, None, None, None),
      Entry("e", "e.test", "gcp", AccountM, Lit, Lit, None),
      Entry("e", "e.test", "route53", AccountM, Lit, RefA, None),
      Entry("e", "e.test", "aliyun", AccountM, Lit, AccountRef, None),
      Entry("e", "e.test", "cloudflare", AccountM, None, None, RefA),
      Entry("e", "e.test", "cloudflare", AccountM, None, None, Lit),
      Entry("e", "e.test", "aliyun", None, EmptyRef, None, None),
      Entry("e", "e.test", "route53", <<>>, None, None, None) }

ResolvePool ==
    { Entry("e", "e.test", "aliyun", AccountM, None, None, None),
      Entry("e", "e.test", "aliyun", None, None, None, None),
      Entry("e", "e.test", "aliyun", None, Lit, Lit, None),
      Entry("e", "e.test", "aliyun", AccountM, RefA, RefB, None),
      Entry("e", "e.test", "aliyun", AccountM, Lit, None, None),
      Entry("e", "e.test", "aliyun", None, PaddedLit, Lit, None),
      Entry("e", "e.test", "aliyun", None, EmptyRef, Lit, None),
      Entry("e", "e.test", "aliyun", None, Lit, PaddedRefA, None),
      Entry("e", "e.test", "aliyun", AccountM, <<>>, Lit, None),
      Entry("e", "e.test", "aliyun", None, RefA, Lit, None) }

InitSecrets(pool) ==
    /\ entries \in SeqsUpTo(pool, MaxEntries)
    /\ env \in EnvsOver(NamesOf(entries))
    /\ certs = [d \in Domains |-> MissingCert]
    /\ cmd = [command |-> "config-validate", name |-> NoName, warn_days |-> 30,
              force_renew_days |-> 7, fix |-> FALSE]
    /\ InitCommon

InitValidate == InitSecrets(ValidatePool)

NextValidate ==
    \/ ConfigValidate
    \/ ExportEnv

SpecValidate == InitValidate /\ [][NextValidate]_vars

InitResolve == InitSecrets(ResolvePool)

NextResolve ==
    \/ ConfigValidate
    \/ PrepareCredentials
    \/ ExportEnv

SpecResolve == InitResolve /\ [][NextResolve]_vars

----------------------------------------------------------------------------
(* config.py: create_runtime, over configuration directories *)

\* _callback: runtime = create_runtime(...), whose load_merged_config either
\* gives the entries of the run or ends it with a validation error
LoadConfig ==
    /\ pc = "load"
    /\ LET config == LoadMergedConfig(conf_dir)
       IN  IF config.ok
           THEN /\ entries' = config.entries
                /\ pc' = "start"
                /\ UNCHANGED outcome
           ELSE /\ outcome' = [exit_code |-> 1, error |-> "ValidationError",
                               by |-> "load"]
                /\ pc' = "done"
                /\ UNCHANGED entries
    /\ UNCHANGED <<conf_dir, env, certs, cmd, results, worst_code, fix_actions,
                   executed, cred_files, certbot_calls, exported, run_log,
                   validation, resolution>>

MaxItemFiles == 2

\* scan_items_glob = "*.toml"
AnyToml == [prefix |-> <<>>, suffix |-> <<".toml">>]

\* item_a.toml, item_a1.toml, item_a.example.toml, b.toml, item_.toml
ItemNames ==
    { <<"item_", "a", ".toml">>,
      <<"item_", "a", "1", ".toml">>,
      <<"item_", "a", ".example", ".toml">>,
      <<"b", ".toml">>,
      <<"item_", ".toml">> }

\* the entries of the global file and of full-document item files
FileEntries ==
    { Entry("a", "a.test", "aliyun", None, Lit, Lit, None),
      [name |-> "b", primary_domain |-> "b.test", dns_provider |-> "cloudflare"] }

\* what an item file can hold: one entry without a name, one entry with a
\* name, an empty mapping, full documents, and `entries` without `global`
ItemDocs ==
    { [has_global |-> FALSE, has_entries |-> FALSE, entries |-> <<>>,
       entry |-> [primary_domain |-> "a.test", dns_provider |-> "cloudflare"]],
      [has_global |-> FALSE, has_entries |-> FALSE, entries |-> <<>>,
       entry |-> [name |-> "a", primary_domain |-> "b.test",
                  dns_provider |-> "aliyun", account_id |-> AccountM]],
      [has_global |-> FALSE, has_entries |-> FALSE, entries |-> <<>>,
       entry |-> NoMapping],
      [has_global |-> TRUE, has_entries |-> FALSE, entries |-> <<>>,
       entry |-> NoMapping],
      [has_global |-> FALSE, has_entries |-> TRUE,
       entries |-> <<Entry("a", "a.test", "aliyun", None, Lit, Lit, None)>>,
       entry |-> NoMapping] }
      \cup {Document(es) : es \in [1..2 -> FileEntries] \ [1..2 -> {Entry("a", "a.test", "aliyun", None, Lit, Lit, None)}]}

\* the directory with these item files, this scan pattern and these entries in
\* the global file
Dir(items, glob, es) ==
    [global_name |-> ConfigToml, scan_glob |-> glob,
     files |-> [p \in DOMAIN items \cup {ConfigToml} |->
                  IF p = ConfigToml THEN Document(es) ELSE items[p]]]

InitRun ==
    /\ entries = <<>>
    /\ pc = "load"
    /\ results = <<>>
    /\ worst_code = 0
    /\ fix_actions = <<>>
    /\ executed = 0
    /\ cred_files = {}
    /\ certbot_calls = <<>>
    /\ exported = {}
    /\ run_log = <<>>
    /\ validation = [kind |-> "none", keys |-> {}]
    /\ resolution = <<>>
    /\ outcome = [exit_code |-> -1, error |-> "running", by |-> "none"]

\* a global file, a scan pattern, up to MaxItemFiles item files
InitMerge ==
    /\ \E N \in SUBSET ItemNames :
          /\ Cardinality(N) <= MaxItemFiles
          /\ \E items \in [N -> ItemDocs], glob \in {DefaultGlob, AnyToml},
                es \in SeqsUpTo(FileEntries, MaxEntries) :
                conf_dir = Dir(items, glob, es)
    /\ env = EmptyEnv
    /\ certs = [d \in Domains |-> MissingCert]
    /\ cmd = [command |-> "entries", name |-> NoName, warn_days |-> 30,
              force_renew_days |-> 7, fix |-> FALSE]
    /\ InitRun

NextMerge == LoadConfig

SpecMerge == InitMerge /\ [][NextMerge]_vars

----------------------------------------------------------------------------
(* cli.py: new, renew, export and check as the command of a run *)

\* the command function returned: the process exits with 0
Returned(by) == [exit_code |-> 0, error |-> "none", by |-> by]

\* the credentials files are written; an error raised ends the process
Prepared(target) ==
    /\ cred_files' = cred_files \cup target.files
    /\ IF target.end = Continue
       THEN pc' = "certbot" /\ UNCHANGED outcome
       ELSE pc' = "done" /\ outcome' = target.end

\* new, lines 126-146: up to the credentials file
NewPrepare ==
    /\ pc = "start"
    /\ cmd.command = "new"
    /\ Prepared(NewTarget(entries, env, cmd.name))
    /\ UNCHANGED <<conf_dir, entries, env, certs, cmd, results, worst_code, fix_actions,
                   executed, certbot_calls, exported, run_log, validation,
                   resolution>>

\* run_certbot and what follows it in new and renew; certbot renew renews the
\* certificates it finds, certbot certonly obtains one
Issue(r, by) ==
    /\ certbot_calls' = certbot_calls \o r.calls
    /\ certs' = [d \in DOMAIN certs |->
                   IF d \in r.issued /\ (by = "new" \/ certs[d].exists)
                   THEN FreshCert ELSE certs[d]]
    /\ exported' = exported \cup r.exported
    /\ run_log' = run_log \o r.logs
    /\ outcome' = IF r.end = Continue THEN Returned(by) ELSE r.end
    /\ pc' = "done"

\* new, lines 148-217
NewIssue ==
    /\ pc = "certbot"
    /\ cmd.command = "new"
    /\ \E proc \in ProcOutcomes :
         Issue(NewCommand(entries, env, cmd.name, cmd.force, cmd.export_,
                          cmd.verbose, proc), "new")
    /\ UNCHANGED <<conf_dir, entries, env, cmd, results, worst_code, fix_actions,
                   executed, cred_files, validation, resolution>>

\* renew, lines 250-270: up to the credentials files
RenewPrepare ==
    /\ pc = "start"
    /\ cmd.command = "renew"
    /\ Prepared(RenewTarget(entries, env, cmd.all, cmd.name))
    /\ UNCHANGED <<conf_dir, entries, env, certs, cmd, results, worst_code, fix_actions,
                   executed, certbot_calls, exported, run_log, validation,
                   resolution>>

\* renew, lines 272-318
RenewIssue ==
    /\ pc = "certbot"
    /\ cmd.command = "renew"
    /\ \E proc \in ProcOutcomes :
         Issue(RenewCommand(entries, env, cmd.all, cmd.name, cmd.force,
                            cmd.dry_run, cmd.export_, cmd.verbose, proc), "renew")
    /\ UNCHANGED <<conf_dir, entries, env, cmd, results, worst_code, fix_actions,
                   executed, cred_files, validation, resolution>>

\* export, lines 331-365
Export ==
    /\ pc = "start"
    /\ cmd.command = "export"
    /\ IF (~cmd.all /\ ~NameGiven(cmd.name))
            \/ (NameGiven(cmd.name) /\ SelectSeqBy(entries, cmd.name) = <<>>)
       THEN /\ outcome' = [exit_code |-> 2, error |-> "BadParameter", by |-> "export"]
            /\ UNCHANGED exported
       ELSE /\ exported' = exported \cup ExportTargets(entries, cmd.name)
            /\ outcome' = Returned("export")
    /\ pc' = "done"
    /\ UNCHANGED <<conf_dir, entries, env, certs, cmd, results, worst_code, fix_actions,
                   executed, cred_files, certbot_calls, run_log, validation,
                   resolution>>

Command(command, all, name, dry_run, export_, fix) ==
    [command |-> command, all |-> all, name |-> name, force |-> FALSE,
     dry_run |-> dry_run, export_ |-> export_, verbose |-> FALSE,
     warn_days |-> 30, force_renew_days |-> 7, fix |-> fix]

\* the command lines of the runs
Commands ==
    {Command("new", FALSE, n, FALSE, x, FALSE) : n \in {"a", "b", "zz"}, x \in BOOLEAN}
      \cup {Command("renew", t[1], t[2], d, TRUE, FALSE) :
              t \in {<<TRUE, NoName>>, <<TRUE, "a">>, <<FALSE, "a">>,
                     <<FALSE, "zz">>, <<FALSE, NoName>>},
              d \in BOOLEAN}
      \cup {Command("export", t[1], t[2], FALSE, FALSE, FALSE) :
              t \in {<<TRUE, NoName>>, <<TRUE, "a">>, <<FALSE, "a">>,
                     <<FALSE, "zz">>, <<FALSE, NoName>>}}
      \cup {Command("check", FALSE, n, FALSE, FALSE, f) :
              n \in {"a", "zz"}, f \in BOOLEAN}

\* two entries named "a" with different domains, one of them resolvable only
\* with the account variables, and an entry of another provider
RunEntries ==
    { Entry("a", "a.test", "aliyun", None, Lit, Lit, None),
      Entry("a", "b.test", "aliyun", AccountM, None, None, None),
      Entry("b", "b.test", "cloudflare", None, None, None, None) }

\* item_a.toml, item_b.toml
RunItemNames == {<<"item_", "a", ".toml">>, <<"item_", "b", ".toml">>}

\* a single entry named after its file, and a full document
RunItemDocs ==
    { [has_global |-> FALSE, has_entries |-> FALSE, entries |-> <<>>,
       entry |-> [primary_domain |-> "b.test", dns_provider |-> "aliyun",
                  access_key_id |-> Lit, access_key_secret |-> Lit]],
      Document(<<Entry("a", "b.test", "aliyun", AccountM, None, None, None)>>) }

InitCommands ==
    /\ \E N \in SUBSET RunItemNames :
          /\ Cardinality(N) <= MaxItemFiles
          /\ \E items \in [N -> RunItemDocs], es \in SeqsUpTo(RunEntries, MaxEntries) :
                conf_dir = Dir(items, DefaultGlob, es)
    /\ env \in {EmptyEnv, AccountEnv}
    /\ certs \in [Domains -> {MissingCert, [exists |-> TRUE, seconds_left |-> 5 * SecondsPerDay]}]
    /\ cmd \in Commands
    /\ InitRun

NextCommands ==
    \/ LoadConfig
    \/ NewPrepare
    \/ NewIssue
    \/ RenewPrepare
    \/ RenewIssue
    \/ Export
    \/ CheckEvaluate
    \/ CheckPlan
    \/ CheckFixNew
    \/ CheckFixRenew
    \/ CheckReport

SpecCommands == InitCommands /\ [][NextCommands]_vars

----------------------------------------------------------------------------
(* Properties of check *)

Weight(status) ==
    CASE status = "ok" -> 0
      [] status = "warn" -> 10
      [] status = "force-renew" -> 20
      [] status = "missing" -> 30

MaxWeight(rs) ==
    LET W == {Weight(rs[i].status) : i \in 1..Len(rs)}
    IN  IF W = {} THEN 0 ELSE CHOOSE m \in W : \A w \in W : w <= m

\* check ran to its last line, raise typer.Exit(code=worst_code)
CheckCompleted == pc = "done" /\ outcome.by = "check" /\ outcome.error = "Exit"

Evaluated == pc \in {"plan", "fix"} \/ (pc = "done" /\ outcome.error # "BadParameter")
               \/ (pc = "done" /\ outcome.by # "check")

HasDays(r) == r.status # "missing"

\* C1: once the entries are evaluated, worst_code is the largest weight among
\* the classifications in results (ok 0, warn 10, force-renew 20, missing 30;
\* 0 for an empty list), and it is the exit code check ends with when it runs
\* to its end.
C1_ExitCodeIsMaxWeight ==
    /\ pc \in {"plan", "fix"} => worst_code = MaxWeight(results)
    /\ CheckCompleted => /\ outcome.exit_code = MaxWeight(results)
                         /\ (results = <<>> => outcome.exit_code = 0)

\* thresholds 30/7, one entry 45 days and one 5 days from expiry: exit code 20
C1_Witness ==
    /\ CheckCompleted
    /\ cmd.warn_days = 30 /\ cmd.force_renew_days = 7
    /\ Len(results) = 2
    /\ results[1].status = "ok" /\ results[1].days_left = 45
    /\ results[2].status = "force-renew" /\ results[2].days_left = 5
    /\ outcome.exit_code = 20

\* C2 as stated: days_left equal to force_renew_days is force-renew, and
\* days_left equal to warn_days is warn, whatever the two thresholds are.
C2_BoundariesAsStated ==
    \A i \in 1..Len(results) :
       HasDays(results[i]) =>
          /\ results[i].days_left = cmd.force_renew_days
                => results[i].status = "force-renew"
          /\ results[i].days_left = cmd.warn_days
                => results[i].status = "warn"

\* C2 amended: days_left equal to force_renew_days is force-renew; days_left
\* equal to warn_days is warn when warn_days > force_renew_days and
\* force-renew otherwise, never ok.
C2_Boundaries ==
    \A i \in 1..Len(results) :
       HasDays(results[i]) =>
          /\ results[i].days_left = cmd.force_renew_days
                => results[i].status = "force-renew"
          /\ results[i].days_left = cmd.warn_days
                => results[i].status =
                      IF cmd.warn_days > cmd.force_renew_days THEN "warn"
                      ELSE "force-renew"

\* both boundaries met in one run: one entry at force_renew_days, one at warn_days
C2_Witness ==
    /\ CheckCompleted
    /\ cmd.warn_days > cmd.force_renew_days
    /\ \E i, j \in 1..Len(results) :
          /\ HasDays(results[i]) /\ HasDays(results[j])
          /\ results[i].days_left = cmd.force_renew_days
          /\ results[i].status = "force-renew"
          /\ results[j].days_left = cmd.warn_days
          /\ results[j].status = "warn"

TenDaysAt30And7(i) ==
    /\ cmd.warn_days = 30 /\ cmd.force_renew_days = 7
    /\ HasDays(results[i]) /\ results[i].days_left = 10

\* C3 as stated: with thresholds 30/7 an entry 10 days from expiry is
\* force-renew and brings the exit code to 20.
C3_TenDaysAsStated ==
    \A i \in 1..Len(results) :
       TenDaysAt30And7(i) =>
          /\ results[i].status = "force-renew"
          /\ worst_code >= 20

\* C3 amended: with thresholds 30/7 an entry 10 days from expiry is warn and
\* contributes weight 10: the exit code is at least 10, and exactly 10 when it
\* is the only entry evaluated.
C3_TenDaysIsWarn ==
    \A i \in 1..Len(results) :
       TenDaysAt30And7(i) =>
          /\ results[i].status = "warn"
          /\ worst_code >= 10
          /\ Len(results) = 1 => worst_code = 10
          /\ (CheckCompleted /\ Len(results) = 1) => outcome.exit_code = 10

C3_Witness ==
    /\ CheckCompleted
    /\ Len(results) = 1
    /\ TenDaysAt30And7(1)
    /\ outcome.exit_code = 10

NeedsAction(r) == r.status \in {"missing", "force-renew"}

FirstIndex(name) ==
    CHOOSE i \in 1..Len(entries) :
       entries[i].name = name /\ \A j \in 1..(i - 1) : entries[j].name # name

\* C4: with --fix the plan holds, in the order of results, one forced new per
\* missing entry and one forced renew per force-renew entry and nothing else;
\* the subprocess calls made so far are those of the first planned actions, in
\* plan order, and of all of them when check runs to its end.
C4_PlanAndOrder ==
    LET planned == SelectSeq(results, NeedsAction)
    IN  (cmd.fix /\ (pc = "fix" \/ (pc = "done" /\ Evaluated))) =>
          /\ Len(fix_actions) = Len(planned)
          /\ \A i \in 1..Len(fix_actions) :
                /\ fix_actions[i].entry = planned[i].entry
                /\ fix_actions[i].action =
                      (IF planned[i].status = "missing" THEN "new" ELSE "renew")
                /\ fix_actions[i].force
          /\ Len(certbot_calls) <= Len(fix_actions)
          /\ \A i \in 1..Len(certbot_calls) :
                /\ certbot_calls[i].sub =
                      (IF fix_actions[i].action = "new" THEN "certonly" ELSE "renew")
                /\ certbot_calls[i].cert_name =
                      entries[FirstIndex(fix_actions[i].entry)].primary_domain
                /\ certbot_calls[i].force
          /\ CheckCompleted => Len(certbot_calls) = Len(fix_actions)

\* a missing entry followed by a force-renew entry: new, then renew, both run
C4_Witness ==
    /\ CheckCompleted
    /\ cmd.fix
    /\ Len(results) = 2
    /\ results[1].status = "missing" /\ results[2].status = "force-renew"
    /\ Len(fix_actions) = 2
    /\ fix_actions[1].action = "new" /\ fix_actions[2].action = "renew"
    /\ Len(certbot_calls) = 2
    /\ certbot_calls[1].sub = "certonly" /\ certbot_calls[2].sub = "renew"

\* C5 as stated: a failing action does not stop the later ones, so whenever
\* check has ended every planned action has been executed.
C5_LaterActionsStillExecuted ==
    pc = "done" => executed = Len(fix_actions)

----------------------------------------------------------------------------
(* Properties of secret validation and credential resolution *)

Populated(v) == v # None /\ v # <<>>

\* the variable k has a non-empty value
NonEmptyIn(e, k) == k \in DOMAIN e /\ e[k] # <<>>

\* v without its leading and trailing blanks
Trimmed(v) ==
    LET I == {i \in 1..Len(v) : v[i] # " "}
    IN  IF I = {} THEN <<>>
        ELSE SubSeq(v, CHOOSE i \in I : \A j \in I : i <= j,
                       CHOOSE i \in I : \A j \in I : i >= j)

\* v is written ${...}
Braced(v) == Len(v) >= 3 /\ v[1] = "$" /\ v[2] = "{" /\ v[Len(v)] = "}"

\* v is a ${NAME} reference, with at least one character for NAME
IsReference(v) == Braced(v) /\ Len(v) > 3

NameIn(v) == Trimmed(SubSeq(v, 3, Len(v) - 1))

FieldsOf(entry) == {entry.access_key_id, entry.access_key_secret, entry.api_token}

HasLiteralField(entry) == \E v \in FieldsOf(entry) : Populated(v) /\ ~IsReference(v)

OwnReferenceNames(entry) ==
    {NameIn(v) : v \in {w \in FieldsOf(entry) : Populated(w) /\ IsReference(w)}}

\* the account convention, per provider
ConventionNames(provider, account) ==
    CASE provider = "cloudflare" ->
           { <<"CERTMAN_CLOUDFLARE_">> \o account \o <<"_API_TOKEN">> }
      [] provider = "route53" ->
           { <<"CERTMAN_AWS_">> \o account \o <<"_ACCESS_KEY_ID">>,
             <<"CERTMAN_AWS_">> \o account \o <<"_SECRET_ACCESS_KEY">>,
             <<"CERTMAN_AWS_">> \o account \o <<"_REGION">> }
      [] provider = "aliyun" ->
           { <<"CERTMAN_ALIYUN_">> \o account \o <<"_ACCESS_KEY_ID">>,
             <<"CERTMAN_ALIYUN_">> \o account \o <<"_ACCESS_KEY_SECRET">> }
      [] OTHER -> {}

AccountNamesOf(entry) ==
    IF Populated(entry.account_id)
    THEN ConventionNames(Lower(entry.dns_provider), entry.account_id)
    ELSE {}

\* what the entry contributes to the missing keys
Contribution(entry, e) == SeqToSet(RequiredEnvKeys(entry, e).keys)

Validated == validation.kind # "none"

\* C6 as stated: an entry with a literal credential field contributes none of
\* its account-convention names, and only unset names of its own references.
C6_LiteralExcludesAccountNames ==
    \A i \in 1..Len(entries) :
       (Validated /\ HasLiteralField(entries[i])) =>
          /\ RequiredEnvKeys(entries[i], env).ok
          /\ Contribution(entries[i], env) \cap AccountNamesOf(entries[i]) = {}
          /\ Contribution(entries[i], env) \subseteq
                {n \in OwnReferenceNames(entries[i]) : ~NonEmptyIn(env, n)}

\* C6 amended: an entry with a literal credential field contributes exactly the
\* unset or empty variables its own ${NAME} reference fields name; no
\* account-based requirement is added, so an account-convention name is
\* reported only when one of the entry's own references names it.
C6_LiteralContributesOwnReferences ==
    /\ \A i \in 1..Len(entries) :
          HasLiteralField(entries[i]) =>
             /\ RequiredEnvKeys(entries[i], env).ok
             /\ Contribution(entries[i], env) =
                   {n \in OwnReferenceNames(entries[i]) : ~NonEmptyIn(env, n)}
    /\ (Validated /\ Len(entries) = 1 /\ HasLiteralField(entries[1])) =>
          /\ validation.kind # "unsupported"
          /\ validation.keys =
                {n \in OwnReferenceNames(entries[1]) : ~NonEmptyIn(env, n)}

\* a literal id, account_id set, the account variables unset, a reference to an
\* unset variable outside the convention: that variable alone is reported
C6_Witness ==
    /\ Validated
    /\ Len(entries) = 1
    /\ HasLiteralField(entries[1])
    /\ Populated(entries[1].account_id)
    /\ AccountNamesOf(entries[1]) # {}
    /\ \A k \in AccountNamesOf(entries[1]) : ~NonEmptyIn(env, k)
    /\ validation.kind = "missing"
    /\ validation.keys = {<<"A">>}

AccountOnly(entry) ==
    /\ Populated(entry.account_id)
    /\ \A v \in FieldsOf(entry) : ~Populated(v)
    /\ Lower(entry.dns_provider) \in {"cloudflare", "route53", "aliyun"}

ExpectedAccountKeys(entry, e) == {k \in AccountNamesOf(entry) : ~NonEmptyIn(e, k)}

C7_State ==
    /\ \A i \in 1..Len(entries) :
          AccountOnly(entries[i]) =>
             /\ RequiredEnvKeys(entries[i], env).ok
             /\ Contribution(entries[i], env) = ExpectedAccountKeys(entries[i], env)
             /\ Len(RequiredEnvKeys(entries[i], env).keys) =
                   Cardinality(ExpectedAccountKeys(entries[i], env))
    /\ (Validated /\ Len(entries) = 1 /\ AccountOnly(entries[1])) =>
          /\ validation.keys = ExpectedAccountKeys(entries[1], env)
          /\ validation.kind = IF validation.keys = {} THEN "ok" ELSE "missing"

\* env' is env with the one variable k changed from unset or empty to a value
SetsOnly(k) ==
    /\ ~NonEmptyIn(env, k)
    /\ NonEmptyIn(env', k)
    /\ \A n \in (DOMAIN env \cup DOMAIN env') \ {k} :
          /\ n \in DOMAIN env <=> n \in DOMAIN env'
          /\ n \in DOMAIN env => env'[n] = env[n]

C7_Step ==
    \A i \in 1..Len(entries) :
       \A k \in AccountNamesOf(entries[i]) :
          (AccountOnly(entries[i]) /\ SetsOnly(k) /\ entries' = entries) =>
             Contribution(entries[i], env') = Contribution(entries[i], env) \ {k}

\* C7: an entry with account_id set, no credential field and a known provider
\* contributes exactly its provider's convention names that have no non-empty
\* value in the environment (and that is the whole result when it is the only
\* entry); setting one of them removes that key and changes nothing else.
C7_AccountOnlyKeys == []C7_State /\ [][C7_Step]_vars

\* a route53 entry with one of its three variables set: the two others reported
C7_Witness ==
    /\ Validated
    /\ Len(entries) = 1
    /\ AccountOnly(entries[1])
    /\ Lower(entries[1].dns_provider) = "route53"
    /\ validation.kind = "missing"
    /\ Cardinality(validation.keys) = 2
    /\ \E k \in AccountNamesOf(entries[1]) : NonEmptyIn(env, k)

\* C8 as stated: a configuration with an entry whose dns_provider is not
\* cloudflare, route53 or aliyun never validates: the call fails with the
\* unsupported-provider error.
C8_UnknownProviderFails ==
    (Validated /\ \E i \in 1..Len(entries) :
                     Lower(entries[i].dns_provider) \notin {"cloudflare", "route53", "aliyun"})
       => validation.kind = "unsupported"

Resolved == resolution # <<>>

\* a value resolved on its own: blanks around it dropped, then a ${NAME}
\* reference read from the environment and anything else passed through
ExpectedValue(v, e) ==
    LET t == Trimmed(v)
    IN  IF Braced(t)
        THEN IF NonEmptyIn(e, NameIn(t))
             THEN [ok |-> TRUE, value |-> e[NameIn(t)]]
             ELSE [ok |-> FALSE, value |-> <<>>]
        ELSE [ok |-> TRUE, value |-> t]

\* the same with a literal passed through verbatim
ExpectedValueVerbatim(v, e) ==
    IF Braced(v)
    THEN IF NonEmptyIn(e, NameIn(v))
         THEN [ok |-> TRUE, value |-> e[NameIn(v)]]
         ELSE [ok |-> FALSE, value |-> <<>>]
    ELSE [ok |-> TRUE, value |-> v]

AliyunIdName(account) == <<"CERTMAN_ALIYUN_">> \o account \o <<"_ACCESS_KEY_ID">>

AliyunSecretName(account) == <<"CERTMAN_ALIYUN_">> \o account \o <<"_ACCESS_KEY_SECRET">>

\* first-match precedence, with Value(v, e) the resolution of one field
Precedence(r, entry, Value(_, _)) ==
    IF Populated(entry.access_key_id) /\ Populated(entry.access_key_secret)
    THEN LET a == Value(entry.access_key_id, env)
             s == Value(entry.access_key_secret, env)
         IN  /\ r.ok <=> (a.ok /\ s.ok)
             /\ r.ok => r.creds = [access_key_id |-> a.value,
                                   access_key_secret |-> s.value]
             /\ ~r.ok => r.error = "missing env var for reference"
    ELSE IF Populated(entry.account_id)
    THEN /\ r.ok <=> /\ NonEmptyIn(env, AliyunIdName(entry.account_id))
                     /\ NonEmptyIn(env, AliyunSecretName(entry.account_id))
         /\ r.ok => r.creds = [access_key_id |-> env[AliyunIdName(entry.account_id)],
                               access_key_secret |->
                                   env[AliyunSecretName(entry.account_id)]]
         /\ ~r.ok => r.error = "missing aliyun env keys"
    ELSE /\ ~r.ok
         /\ r.error = "aliyun entry missing account_id or credentials"

\* C9 as stated: first-match precedence, a literal passing through verbatim.
C9_PrecedenceVerbatim ==
    Resolved =>
       Precedence(resolution[1], entries[resolution[1].index], ExpectedValueVerbatim)

\* C9 amended: the same precedence, each of the two values being resolved
\* after its leading and trailing whitespace is removed: a literal passes
\* through stripped, not verbatim, and a value that is a ${NAME} reference once
\* stripped is read from the environment.
C9_Precedence ==
    Resolved =>
       Precedence(resolution[1], entries[resolution[1].index], ExpectedValue)

\* the id " s " was resolved to "s"
C9_Witness ==
    /\ Resolved
    /\ resolution[1].ok
    /\ entries[resolution[1].index].access_key_id = <<" ", "s", " ">>
    /\ resolution[1].creds.access_key_id = <<"s">>

\* C10 as stated: when validation reports no missing key, credential
\* resolution succeeds for every entry under the same environment.
C10_ValidatedIsResolvable ==
    (validation.kind = "ok" /\ Resolved) => resolution[1].ok

\* C11 as stated: an aliyun entry whose credential resolution succeeds in an
\* environment contributes no missing key to the validation of that
\* environment, and when it is the only entry the validation reports none.
C11_ResolvableContributesNothing ==
    (Resolved /\ resolution[1].ok) =>
       /\ RequiredEnvKeys(entries[resolution[1].index], env).ok
       /\ Contribution(entries[resolution[1].index], env) = {}
       /\ (Validated /\ Len(entries) = 1) => validation.kind = "ok"

----------------------------------------------------------------------------
(* Properties of the configuration merge *)

\* the configuration was loaded: the run has its merged entry list
Loaded == pc # "load" /\ outcome.by # "load"

GlobalFile == conf_dir.files[conf_dir.global_name]

\* the item files: the files of the directory the scan pattern matches, but
\* for the global file itself and the *.example.toml files
ItemFiles ==
    {p \in DOMAIN conf_dir.files :
        /\ p # conf_dir.global_name
        /\ Len(p) >= Len(conf_dir.scan_glob.prefix) + Len(conf_dir.scan_glob.suffix)
        /\ \A i \in 1..Len(conf_dir.scan_glob.prefix) : p[i] = conf_dir.scan_glob.prefix[i]
        /\ \A i \in 1..Len(conf_dir.scan_glob.suffix) :
              p[Len(p) - Len(conf_dir.scan_glob.suffix) + i] = conf_dir.scan_glob.suffix[i]
        /\ ~(Len(p) >= 2 /\ p[Len(p) - 1] = ".example" /\ p[Len(p)] = ".toml")}

SingleEntryFile(p) ==
    ~conf_dir.files[p].has_entries /\ ~conf_dir.files[p].has_global

\* the name a single-entry file's entry is expected to have
ExpectedName(p) ==
    LET m == conf_dir.files[p].entry
        base == Stem(p)
    IN  IF "name" \in DOMAIN m THEN m.name
        ELSE IF base[1] = "item_" THEN Join(Tail(base))
        ELSE Join(base)

\* the entries an item file is expected to contribute, as the model holds them
Contributed(p) ==
    IF SingleEntryFile(p)
    THEN LET m == conf_dir.files[p].entry
         IN  <<EntryModel([f \in DOMAIN m \cup {"name"} |->
                             IF f = "name" THEN ExpectedName(p) ELSE m[f]])>>
    ELSE [i \in 1..Len(conf_dir.files[p].entries) |->
            EntryModel(conf_dir.files[p].entries[i])]

\* the item files in ascending order of their names
InNameOrder ==
    CHOOSE f \in [1..Cardinality(ItemFiles) -> ItemFiles] :
       \A i, j \in 1..Cardinality(ItemFiles) : i < j => PathLess(f[i], f[j])

RECURSIVE ContributedFrom(_)
\* the contributions of the item files from the i-th on, concatenated
ContributedFrom(i) ==
    IF i > Cardinality(ItemFiles) THEN <<>>
    ELSE Contributed(InNameOrder[i]) \o ContributedFrom(i + 1)

GlobalEntries ==
    [i \in 1..Len(GlobalFile.entries) |-> EntryModel(GlobalFile.entries[i])]

\* C12: the merged entry list is the global file's entries in their order,
\* followed by what the item files contribute, file after file in sorted file
\* name order, every entry of a full-document file in its order or the one
\* entry of a single-entry file; nothing is dropped, reordered or
\* deduplicated, and without item files it is the global file's entries.
C12_MergedOrder ==
    Loaded =>
       /\ entries = GlobalEntries \o ContributedFrom(1)
       /\ ItemFiles = {} => entries = GlobalEntries

\* two entries from the global file, then those of b.toml, then that of
\* item_a.toml, with the name "a" three times in the merged list
C12_Witness ==
    /\ Loaded
    /\ Len(GlobalFile.entries) = 2
    /\ ItemFiles = {<<"b", ".toml">>, <<"item_", "a", ".toml">>}
    /\ Len(conf_dir.files[<<"b", ".toml">>].entries) = 2
    /\ SingleEntryFile(<<"item_", "a", ".toml">>)
    /\ Len(entries) = 5
    /\ Cardinality({i \in 1..Len(entries) : entries[i].name = "a"}) = 3
    /\ entries[3].name # entries[4].name

\* how many entries an item file is expected to contribute
Count(p) == IF SingleEntryFile(p) THEN 1 ELSE Len(conf_dir.files[p].entries)

RECURSIVE CountAll(_)
CountAll(S) ==
    IF S = {} THEN 0
    ELSE LET p == CHOOSE q \in S : TRUE IN Count(p) + CountAll(S \ {p})

\* where in the merged list the contribution of item file p starts
Position(p) ==
    Len(GlobalFile.entries) + CountAll({q \in ItemFiles : PathLess(q, p)}) + 1

\* C13: an item file with neither an `entries` nor a `global` key contributes
\* exactly one entry; without a `name` field the entry is named after the
\* file's base name, the prefix item_ stripped when the base name starts with
\* it, and with a `name` field it keeps that name.
C13_SingleEntryName ==
    Loaded =>
       /\ Len(entries) = Len(GlobalFile.entries) + CountAll(ItemFiles)
       /\ \A p \in ItemFiles :
             SingleEntryFile(p) =>
                LET m == conf_dir.files[p].entry
                    e == entries[Position(p)]
                IN  /\ \A f \in DOMAIN m : e[f] = m[f]
                    /\ "name" \notin DOMAIN m =>
                          e.name = IF Stem(p)[1] = "item_" THEN Join(Tail(Stem(p)))
                                   ELSE Join(Stem(p))

\* b.toml and item_a.toml, each one entry without a name: the entries "b" and
\* "a" follow the global file's entries, in this order
C13_Witness ==
    /\ Loaded
    /\ ItemFiles = {<<"b", ".toml">>, <<"item_", "a", ".toml">>}
    /\ \A p \in ItemFiles : SingleEntryFile(p) /\ "name" \notin DOMAIN conf_dir.files[p].entry
    /\ Len(entries) = Len(GlobalFile.entries) + 2
    /\ entries[Len(entries) - 1].name = "b"
    /\ entries[Len(entries)].name = "a"

----------------------------------------------------------------------------
(* Properties of the commands of a run *)

\* how many entries of the sequence have this name
Named(es, n) == Cardinality({i \in 1..Len(es) : es[i].name = n})

\* the sources that define an entry named n: the global file, item files
SourcesOf(n) ==
    (IF Named(GlobalEntries, n) > 0 THEN {conf_dir.global_name} ELSE {})
      \cup {p \in ItemFiles : Named(Contributed(p), n) > 0}

\* the run selects by a name that two sources define
SelectsByName ==
    /\ Loaded
    /\ NameGiven(cmd.name)
    /\ cmd.command \in {"new", "renew", "export", "check"}
    /\ cmd.command = "renew" => ~cmd.all
    /\ Cardinality(SourcesOf(cmd.name)) >= 2

\* C14 as stated: entries of the same name from two sources are both in the
\* merged list, and a command that selects by name (new, renew, export, check
\* with a name) operates on the first entry of the merged list with that name
\* and on no other: its subprocess calls, its exports and its check results
\* are those of that entry.
C14_FirstMatchOnly ==
    /\ Loaded =>
          \A n \in {"a", "b"} :
             /\ Named(entries, n) = Named(GlobalEntries \o ContributedFrom(1), n)
             /\ Named(entries, n) >= Cardinality(SourcesOf(n))
    /\ SelectsByName =>
          LET selected == entries[FirstIndex(cmd.name)]
          IN  /\ \A i \in 1..Len(certbot_calls) :
                    certbot_calls[i].cert_name = selected.primary_domain
              /\ \A x \in exported : x = <<selected.name, selected.primary_domain>>
              /\ \A i \in 1..Len(results) :
                    /\ results[i].entry = selected.name
                    /\ results[i].primary_domain = selected.primary_domain
              /\ Len(results) <= 1

\* the entries a new or renew run targets: the first one with the name, or
\* with --all every entry of the configuration
Targeted ==
    IF cmd.command = "renew" /\ cmd.all THEN 1..Len(entries)
    ELSE IF NameGiven(cmd.name) /\ \E i \in 1..Len(entries) : entries[i].name = cmd.name
    THEN {FirstIndex(cmd.name)}
    ELSE {}

Resolvable(i) == AliyunCredentialsForEntry(entries[i], env).ok

\* the credentials of every targeted entry are resolved and on disk
AllWritten ==
    \A i \in Targeted :
       /\ Resolvable(i)
       /\ PrepareAliyunCredentialsIni(entries[i], env).file \in cred_files

IssuingRun == Loaded /\ cmd.command \in {"new", "renew"}

C15_State ==
    IssuingRun =>
       /\ (\E i \in Targeted : ~Resolvable(i)) =>
             /\ certbot_calls = <<>>
             /\ pc = "done" => outcome.exit_code \in {1, 2}
       /\ certbot_calls # <<>> => AllWritten

C15_Step ==
    (IssuingRun /\ certbot_calls' # certbot_calls) =>
       /\ AllWritten
       /\ certbot_calls = <<>>

\* C15: in a new or renew run, when the credentials of a targeted entry (with
\* renew --all, of any entry) cannot be resolved, the subprocess is never
\* started and the command ends with an error; the subprocess is started only
\* in a state where the credentials of every targeted entry have already been
\* resolved and written.
C15_CredentialsBeforeIssuance == []C15_State /\ [][C15_Step]_vars

\* renew --all over two entries, the second one unresolvable: the file of the
\* first was written, the run ended with the error, the subprocess never ran
C15_Witness ==
    /\ IssuingRun
    /\ pc = "done"
    /\ cmd.command = "renew"
    /\ cmd.all
    /\ Len(entries) = 2
    /\ Resolvable(1)
    /\ ~Resolvable(2)
    /\ cred_files = {PrepareAliyunCredentialsIni(entries[1], env).file}
    /\ certbot_calls = <<>>
    /\ outcome = [exit_code |-> 1, error |-> "ValueError", by |-> "renew"]

----------------------------------------------------------------------------
(* Properties of check: the entry not found, the report after --fix *)

\* check was given a name that no entry has
NotFound ==
    /\ cmd.command = "check"
    /\ NameGiven(cmd.name)
    /\ \A i \in 1..Len(entries) : entries[i].name # cmd.name

\* C16 as stated: a check run given a name that matches no entry ends with
\* exit code 30.
C16_NotFoundExits30 ==
    (pc = "done" /\ NotFound) => outcome.exit_code = 30

\* a result describes the certificate of its entry as it is now
Describes(r) ==
    IF certs[r.primary_domain].exists
    THEN /\ r.status # "missing"
         /\ r.days_left = DaysLeft(certs[r.primary_domain])
    ELSE r.status = "missing"

FixRun == cmd.command = "check" /\ cmd.fix

\* the payload check wrote to its run log
CheckLog == run_log[Len(run_log)]

C17_State ==
    FixRun =>
       /\ pc = "plan" => \A i \in 1..Len(results) : Describes(results[i])
       /\ CheckCompleted =>
             /\ outcome.exit_code = MaxWeight(results)
             /\ (\E i \in 1..Len(results) : results[i].status = "missing")
                   => outcome.exit_code = 30
             /\ (/\ \E i \in 1..Len(results) : results[i].status = "force-renew"
                 /\ \A i \in 1..Len(results) : results[i].status # "missing")
                   => outcome.exit_code = 20
             /\ run_log # <<>>
             /\ CheckLog.command = "check"
             /\ CheckLog.results = results
             /\ CheckLog.exit_code = outcome.exit_code

C17_Step ==
    (FixRun /\ pc \in {"plan", "fix"}) =>
       /\ results' = results
       /\ worst_code' = worst_code

\* C17: in a check run with --fix whose planned actions all succeed, the
\* results and the exit code are those of the evaluation made before the first
\* action: nothing is evaluated again after the fixes, so the exit code is the
\* pre-fix worst weight (30 if an entry was missing, else 20 if one needed
\* force-renew) and the run log records these results and this exit code.
C17_ReportIsPreFix == []C17_State /\ [][C17_Step]_vars

\* a missing certificate was issued by the fix, and check still reports the
\* entry as missing and ends with 30
C17_Witness ==
    /\ FixRun
    /\ CheckCompleted
    /\ Len(fix_actions) = 2
    /\ \E i \in 1..Len(results) :
          /\ results[i].status = "missing"
          /\ certs[results[i].primary_domain] = FreshCert
    /\ \A i \in 1..Len(results) : ~Describes(results[i])
    /\ outcome.exit_code = 30
    /\ CheckLog.exit_code = 30

====
